---- MODULE Spec2Model ----
(***************************************************************************)
(* Model of scripts/build_publications.py: the PubMed search/summary       *)
(* pipeline (esearch, esummary, normalize_record, group_by_year,           *)
(* render_fragment, inject_into_file, main).                               *)
(*                                                                         *)
(* Text is modelled as a sequence of tokens.  A token is a TLA+ string     *)
(* that stands for the same characters of the Python string: either one    *)
(* character of externally supplied text, or a chunk of literal markup     *)
(* that the program handles as a unit (a template literal, a marker).      *)
(* Concatenating the tokens of a sequence gives the Python string.  Every  *)
(* token either begins with "<" or holds no "<" at all, so the substring   *)
(* tests and the regular expression of the program are exact on tokens.    *)
(***************************************************************************)
EXTENDS Integers, Sequences, FiniteSets, TLC

VARIABLES pc, args, terms, hits, pmids, net, batches, raw, records,
          by_year, frag, file, outfile, exitcode, log

vars == <<pc, args, terms, hits, pmids, net, batches, raw, records,
          by_year, frag, file, outfile, exitcode, log>>

(***************************************************************************)
(* Bounds of the model.                                                    *)
(***************************************************************************)
MaxTerms == 2
MaxRecs == 3
MaxPmids == 450
MaxCalls == 2

(***************************************************************************)
(* Characters and strings.                                                 *)
(***************************************************************************)
START == "<!-- PUBLIST:START -->"
END == "<!-- PUBLIST:END -->"
PILL == "Updated automatically from PubMed: "
NL == "\n"

Digits == <<"0", "1", "2", "3", "4", "5", "6", "7", "8", "9">>

IsDigitChar(c) == \E i \in 1..10 : Digits[i] = c

DigitVal(c) == (CHOOSE i \in 1..10 : Digits[i] = c) - 1

\* The printable characters in code-point order, in the two runs that a
\* string of this language can hold: UpTo95[i] is chr(31 + i) and From97[i] is
\* chr(96 + i).
UpTo95 ==
    <<" ", "!", "\"", "#", "$", "%", "&", "'", "(", ")", "*", "+", ",",
      "-", ".", "/", "0", "1", "2", "3", "4", "5", "6", "7", "8", "9", ":",
      ";", "<", "=", ">", "?", "@", "A", "B", "C", "D", "E", "F", "G", "H",
      "I", "J", "K", "L", "M", "N", "O", "P", "Q", "R", "S", "T", "U", "V",
      "W", "X", "Y", "Z", "[", "\\", "]", "^", "_">>

From97 ==
    <<"a", "b", "c", "d", "e", "f", "g", "h", "i", "j", "k", "l", "m", "n",
      "o", "p", "q", "r", "s", "t", "u", "v", "w", "x", "y", "z", "{", "|",
      "}", "~">>

IsPrintable(c) ==
    \/ \E i \in 1..Len(UpTo95) : UpTo95[i] = c
    \/ \E i \in 1..Len(From97) : From97[i] = c

\* ord(c) of one character.
Code(c) ==
    CASE c = "\t" -> 9
      [] c = NL -> 10
      [] c = "\f" -> 12
      [] c = "\r" -> 13
      [] \E i \in 1..Len(UpTo95) : UpTo95[i] = c ->
             31 + (CHOOSE i \in 1..Len(UpTo95) : UpTo95[i] = c)
      [] \E i \in 1..Len(From97) : From97[i] = c ->
             96 + (CHOOSE i \in 1..Len(From97) : From97[i] = c)

\* chr(n) for n in 32..127; the two characters a string of this language
\* cannot hold stand as tokens of their own.
Chr(n) ==
    CASE n = 96 -> "chr(96)"
      [] n = 127 -> "chr(127)"
      [] n <= 95 -> UpTo95[n - 31]
      [] OTHER -> From97[n - 96]

\* The characters of a token: a marker is spelled out, any other token of a
\* record field is one character.
Spell(c) ==
    CASE c = START ->
        <<"<", "!", "-", "-", " ", "P", "U", "B", "L", "I", "S", "T", ":",
          "S", "T", "A", "R", "T", " ", "-", "-", ">">>
      [] c = END ->
        <<"<", "!", "-", "-", " ", "P", "U", "B", "L", "I", "S", "T", ":",
          "E", "N", "D", " ", "-", "-", ">">>
      [] c = "<!-- publist:start -->" ->
        <<"<", "!", "-", "-", " ", "p", "u", "b", "l", "i", "s", "t", ":",
          "s", "t", "a", "r", "t", " ", "-", "-", ">">>
      [] c = "<!-- publist:end -->" ->
        <<"<", "!", "-", "-", " ", "p", "u", "b", "l", "i", "s", "t", ":",
          "e", "n", "d", " ", "-", "-", ">">>
      [] OTHER -> <<c>>

RECURSIVE Chars(_)
Chars(s) == IF s = <<>> THEN <<>> ELSE Spell(Head(s)) \o Chars(Tail(s))

\* str.lower() on one token.
LowerChar(c) ==
    CASE c = START -> "<!-- publist:start -->"
      [] c = END -> "<!-- publist:end -->"
      [] IsPrintable(c) /\ Code(c) >= Code("A") /\ Code(c) <= Code("Z") ->
             Chr(Code(c) + (Code("a") - Code("A")))
      [] OTHER -> c

Lower(s) == [i \in 1..Len(s) |-> LowerChar(s[i])]

\* str.isspace() on one character.
IsSpace(c) == c \in {" ", NL, "\t", "\r", "\f"}

RECURSIVE LStrip(_)
LStrip(s) == IF s # <<>> /\ IsSpace(Head(s)) THEN LStrip(Tail(s)) ELSE s

RECURSIVE RStrip(_)
RStrip(s) ==
    IF s # <<>> /\ IsSpace(s[Len(s)]) THEN RStrip(SubSeq(s, 1, Len(s) - 1)) ELSE s

\* str.strip()
Strip(s) == RStrip(LStrip(s))

\* str.rstrip("."): every trailing period goes.
RECURSIVE RStripDots(_)
RStripDots(s) ==
    IF s # <<>> /\ s[Len(s)] = "." THEN RStripDots(SubSeq(s, 1, Len(s) - 1)) ELSE s

\* Lexicographic order by code point; a proper prefix is smaller.
RECURSIVE CharsLess(_, _)
CharsLess(a, b) ==
    IF b = <<>> THEN FALSE
    ELSE IF a = <<>> THEN TRUE
    ELSE IF Code(Head(a)) # Code(Head(b)) THEN Code(Head(a)) < Code(Head(b))
    ELSE CharsLess(Tail(a), Tail(b))

\* Python's < on str.
StrLess(a, b) == CharsLess(Chars(a), Chars(b))

\* sep.join(parts)
RECURSIVE Join(_, _)
Join(sep, parts) ==
    IF parts = <<>> THEN <<>>
    ELSE IF Len(parts) = 1 THEN parts[1]
    ELSE parts[1] \o sep \o Join(sep, Tail(parts))

\* str.replace('"', "&quot;")
ReplaceQuot(s) == [i \in 1..Len(s) |-> IF s[i] = "\"" THEN "&quot;" ELSE s[i]]

\* str(n) for n >= 0
RECURSIVE StrOfNat(_)
StrOfNat(n) ==
    IF n < 10 THEN <<Digits[n + 1]>>
    ELSE StrOfNat(n \div 10) \o <<Digits[(n % 10) + 1]>>

\* str.isdigit()
IsDigitStr(s) == s # <<>> /\ \A i \in 1..Len(s) : IsDigitChar(s[i])

\* int(s) for a digit string
RECURSIVE IntOfStr(_)
IntOfStr(s) ==
    IF s = <<>> THEN 0
    ELSE 10 * IntOfStr(SubSeq(s, 1, Len(s) - 1)) + DigitVal(s[Len(s)])

\* The first index at or after i where s holds token t, 0 when there is none.
Find(s, t, i) ==
    LET at == {j \in i..Len(s) : s[j] = t}
    IN  IF at = {} THEN 0 ELSE CHOOSE j \in at : \A k \in at : j <= k

Contains(s, t) == Find(s, t, 1) # 0

(***************************************************************************)
(* The records the summary endpoint holds, by uid.  Absent fields of the   *)
(* JSON are empty strings or empty lists, as rec.get(...) or "" reads them.*)
(***************************************************************************)
Id12 == <<"1", "2">>
Id7 == <<"7">>
Id07 == <<"0", "7">>
Id5 == <<"5">>
Id3 == <<"3">>
IdX == <<"x">>

Ids == {Id12, Id7, Id07, Id5, Id3, IdX}

RawRec(uid, title, full, source, pubdate, authors, articleids) ==
    [uid |-> uid, title |-> title, fulljournalname |-> full, source |-> source,
     pubdate |-> pubdate, authors |-> authors, articleids |-> articleids]

ArticleId(t, v) == [idtype |-> t, value |-> v]

\* uid 07 is unknown to the endpoint: its summary holds no record for it.
DB ==
    {RawRec(Id12, <<" ", "B", ".", " ">>, <<"J">>, <<>>,
            <<"2", "0", "2", "1", " ", "J", "a", "n">>,
            <<[name |-> <<"A", " ", "B">>], [name |-> <<"C">>]>>,
            <<ArticleId("pii", <<"x">>), ArticleId("doi", <<"1", "0", "/", "a">>)>>),
     RawRec(Id7, <<"A">>, <<>>, <<"J">>,
            <<"2", "0", "2", "1", " ", "J", "a", "n">>,
            <<[name |-> <<>>]>>,
            <<>>),
     RawRec(Id5, <<"<", "s", "c", "r", "i", "p", "t", ">">>, <<"\"", "J", "\"">>, <<>>,
            <<"D", "e", "c", " ", "2", "0", "1", "9">>,
            <<[name |-> <<"<", "b", ">">>]>>,
            <<ArticleId("DOI", <<"9">>)>>),
     RawRec(Id3, <<"C">>, <<END>>, <<>>,
            <<"1", "8", "9", "9">>,
            <<[name |-> <<"D">>]>>,
            <<ArticleId("doi", <<"1", "0", "/", "b">>)>>),
     RawRec(IdX, <<"A", ".", ".">>, <<>>, <<>>,
            <<>>,
            <<>>,
            <<>>)}

(***************************************************************************)
(* normalize_record                                                        *)
(***************************************************************************)
\* re.search(r"(19|20)\d{2}", s): the leftmost match, as its start index; 0
\* when nothing matches.
YearMatch(s) ==
    LET ok(i) == /\ \/ s[i] = "1" /\ s[i + 1] = "9"
                    \/ s[i] = "2" /\ s[i + 1] = "0"
                 /\ IsDigitChar(s[i + 2])
                 /\ IsDigitChar(s[i + 3])
        starts == {i \in 1..(Len(s) - 3) : ok(i)}
    IN  IF starts = {} THEN 0 ELSE CHOOSE i \in starts : \A j \in starts : i <= j

ParseYear(pubdate) ==
    LET m == YearMatch(pubdate)
    IN  IF m = 0 THEN 0 ELSE IntOfStr(SubSeq(pubdate, m, m + 3))

AuthorNames(authors) ==
    SelectSeq([i \in 1..Len(authors) |-> authors[i].name], LAMBDA n : n # <<>>)

FirstDoi(articleids) ==
    LET hit == {i \in 1..Len(articleids) : articleids[i].idtype = "doi"}
    IN  IF hit = {} THEN <<>>
        ELSE articleids[CHOOSE i \in hit : \A j \in hit : i <= j].value

normalize_record(rec) ==
    LET title == RStripDots(Strip(rec.title))
        journal == Strip(IF rec.fulljournalname # <<>> THEN rec.fulljournalname
                         ELSE rec.source)
        pubdate == rec.pubdate
        authors == AuthorNames(rec.authors)
        doi == FirstDoi(rec.articleids)
        pmid == rec.uid
    IN  [title |-> title, journal |-> journal, year |-> ParseYear(pubdate),
         pubdate |-> pubdate, authors |-> authors, doi |-> doi, pmid |-> pmid,
         search_text |-> Lower(Join(<<" ">>,
             <<title, journal, pubdate, Join(<<" ">>, authors), doi, pmid>>))]

(***************************************************************************)
(* group_by_year                                                           *)
(***************************************************************************)
\* The sort key (pubdate, title) of line 115, compared as Python compares
\* tuples of strings.
KeyLess(a, b) ==
    \/ StrLess(a.pubdate, b.pubdate)
    \/ a.pubdate = b.pubdate /\ StrLess(a.title, b.title)

\* One step of a stable descending sort: r goes after every element whose
\* key is not smaller than its own.
RECURSIVE InsertDesc(_, _)
InsertDesc(sorted, r) ==
    IF sorted = <<>> THEN <<r>>
    ELSE IF KeyLess(Head(sorted), r) THEN <<r>> \o sorted
    ELSE <<Head(sorted)>> \o InsertDesc(Tail(sorted), r)

\* list.sort(key=..., reverse=True): descending, equal keys keep their order.
RECURSIVE SortRecsDesc(_)
SortRecsDesc(recs) ==
    IF recs = <<>> THEN <<>>
    ELSE InsertDesc(SortRecsDesc(SubSeq(recs, 1, Len(recs) - 1)), recs[Len(recs)])

\* The keys of `by` after the setdefault loop: years in first-seen order.
RECURSIVE YearKeys(_)
YearKeys(recs) ==
    IF recs = <<>> THEN <<>>
    ELSE LET init == YearKeys(SubSeq(recs, 1, Len(recs) - 1))
             y == recs[Len(recs)].year
         IN  IF \E i \in 1..Len(init) : init[i] = y THEN init ELSE Append(init, y)

RECURSIVE InsertYearDesc(_, _)
InsertYearDesc(sorted, kv) ==
    IF sorted = <<>> THEN <<kv>>
    ELSE IF Head(sorted).year < kv.year THEN <<kv>> \o sorted
    ELSE <<Head(sorted)>> \o InsertYearDesc(Tail(sorted), kv)

\* sorted(by.items(), key=lambda kv: kv[0], reverse=True)
RECURSIVE SortYearsDesc(_)
SortYearsDesc(items) ==
    IF items = <<>> THEN <<>>
    ELSE InsertYearDesc(SortYearsDesc(SubSeq(items, 1, Len(items) - 1)),
                        items[Len(items)])

\* group_by_year without the sorted() of line 116: years in first-seen order.
group_by_year_unsorted(recs) ==
    LET keys == YearKeys(recs)
    IN  [k \in 1..Len(keys) |->
            [year |-> keys[k],
             recs |-> SortRecsDesc(SelectSeq(recs, LAMBDA r : r.year = keys[k]))]]

\* The ordered dict the function returns, as its items in order.
group_by_year(recs) ==
    LET keys == YearKeys(recs)
        items == [k \in 1..Len(keys) |->
                    [year |-> keys[k],
                     recs |-> SortRecsDesc(SelectSeq(recs, LAMBDA r : r.year = keys[k]))]]
    IN  SortYearsDesc(items)

(***************************************************************************)
(* render_fragment.  The literals of its templates, one token each.        *)
(***************************************************************************)
SecOpen == "<section class=\"year-block\" data-year=\""
TagEnd == "\">"
Ind2 == "  "
Ind4 == "    "
Ind6 == "      "
H2Open == "<h2 class=\"year\">"
H2Close == "</h2>"
OlOpen == "<ol class=\"pubs\">"
OlClose == "</ol>"
SecClose == "</section>"
LiOpen == "<li class=\"pub\" data-search=\""
LiClose == "</li>"
MetaOpen == "<div class=\"meta\">"
TitleOpen == "<div class=\"title\">"
JournalOpen == "<div class=\"journal\">"
LinksOpen == "<div class=\"links\">"
DivClose == "</div>"
DoiOpen == "<a href=\"https://doi.org/"
PmidOpen == "<a href=\"https://pubmed.ncbi.nlm.nih.gov/"
DoiMid == "\" target=\"_blank\" rel=\"noopener\">"
PmidMid == "/\" target=\"_blank\" rel=\"noopener\">"
DoiText == "DOI"
PmidText == "PMID:"
AClose == "</a>"
LinkSep == " (U+00B7) "

DoiHtml(r) ==
    IF r.doi # <<>> THEN <<DoiOpen>> \o r.doi \o <<DoiMid, DoiText, AClose>> ELSE <<>>

PmidHtml(r) ==
    IF r.pmid # <<>>
    THEN <<PmidOpen>> \o r.pmid \o <<PmidMid, PmidText>> \o r.pmid \o <<AClose>>
    ELSE <<>>

\* The text put into the title, meta and journal elements (lines 142-144
\* and 170-172): the field as it is.
Embed(text) == text

\* The <li> of one record (lines 134-147, 162-175) around its link row.
RenderLi(r, links) ==
    <<Ind4, LiOpen>> \o ReplaceQuot(r.search_text) \o <<TagEnd>>
    \o <<Ind6, MetaOpen>> \o Embed(Join(<<",", " ">>, r.authors)) \o <<DivClose>>
    \o <<Ind6, TitleOpen>> \o Embed(r.title) \o <<DivClose>>
    \o <<Ind6, JournalOpen>> \o Embed(r.journal) \o <<DivClose>>
    \o <<Ind6, LinksOpen>> \o links \o <<DivClose>>
    \o <<Ind4, LiClose>>

\* Lines 131-133: the DOI and PMID links that exist, joined.
DatedLinks(r) ==
    Join(<<LinkSep>>, SelectSeq(<<DoiHtml(r), PmidHtml(r)>>, LAMBDA x : x # <<>>))

\* The parts appended for one numbered year (lines 124-149).
YearParts(kv) ==
    <<<<SecOpen>> \o StrOfNat(kv.year) \o <<TagEnd>>,
      <<Ind2, H2Open>> \o StrOfNat(kv.year) \o <<H2Close>>,
      <<Ind2, OlOpen>>>>
    \o [i \in 1..Len(kv.recs) |-> RenderLi(kv.recs[i], DatedLinks(kv.recs[i]))]
    \o <<<<Ind2, OlClose>>, <<SecClose>>>>

\* The parts appended for the undated records (lines 154-177).
UndatedParts(recs) ==
    <<<<SecOpen, "undated", TagEnd>>,
      <<Ind2, H2Open, "Undated", H2Close>>,
      <<Ind2, OlOpen>>>>
    \o [i \in 1..Len(recs) |-> RenderLi(recs[i], PmidHtml(recs[i]))]
    \o <<<<Ind2, OlClose>>, <<SecClose>>>>

RECURSIVE NumberedParts(_)
NumberedParts(items) ==
    IF items = <<>> THEN <<>>
    ELSE (IF Head(items).year = 0 THEN <<>> ELSE YearParts(Head(items)))
         \o NumberedParts(Tail(items))

render_fragment(items) ==
    LET zero == SelectSeq(items, LAMBDA kv : kv.year = 0)
        tail == IF zero # <<>> /\ zero[1].recs # <<>>
                THEN UndatedParts(zero[1].recs) ELSE <<>>
    IN  Join(<<NL>>, NumberedParts(items) \o tail)

(***************************************************************************)
(* inject_into_file                                                        *)
(***************************************************************************)
\* A path on disk: whether a file is there, and its text.
NoFile == [exists |-> FALSE, text |-> <<>>]

FileOf(text) == [exists |-> TRUE, text |-> text]

\* The tokens that begin with "<"; every other token holds no "<".
LtTokens ==
    {"<", START, END, "<!-- publist:start -->", "<!-- publist:end -->",
     "<main>", "</main>", "<span>", "</span>", "</head>",
     SecOpen, H2Open, H2Close, OlOpen, OlClose, SecClose, LiOpen, LiClose,
     MetaOpen, TitleOpen, JournalOpen, LinksOpen, DivClose, DoiOpen, PmidOpen,
     AClose}

\* str.partition(sep): the text before the first sep, the sep found (empty
\* when there is none) and the text after it.
Partition(s, sep) ==
    LET i == Find(s, sep, 1)
    IN  IF i = 0 THEN <<s, <<>>, <<>>>>
        ELSE <<SubSeq(s, 1, i - 1), <<sep>>, SubSeq(s, i + 1, Len(s))>>

\* The clock as strftime("%Y-%m-%d %H:%M UTC") prints it: the first two
\* digits of the year, and the rest of the text as one token.
Clock(y1, y2, rest) == [y1 |-> y1, y2 |-> y2, rest |-> rest]

Nows == {Clock("2", "0", "26-10-30 11:27 UTC"), Clock("2", "0", "26-10-31 08:05 UTC")}

IsOctChar(c) == IsDigitChar(c) /\ DigitVal(c) < 8

\* The replacement r"\1" + now of line 197 as re.sub expands it.  The
\* template parser reads a backslash, a digit and two more octal digits as
\* an octal escape: "\1" followed by the year's "20" is "\120", the one
\* character chr(0o120), and group 1 is not referenced.  With a non-octal
\* digit next, "\1d" is a reference to a group the pattern lacks: re.error,
\* which line 198 swallows (valid is FALSE, the text stays as it was).
Replacement(now) ==
    IF IsOctChar(now.y1) /\ IsOctChar(now.y2)
    THEN [valid |-> TRUE,
          text |-> <<Chr(64 + 8 * DigitVal(now.y1) + DigitVal(now.y2)), now.rest>>]
    ELSE [valid |-> FALSE, text |-> <<>>]

\* The end of the run of tokens without "<" that starts at i (i - 1 when
\* the run is empty): what [^<]+ takes.
RunEnd(s, i) ==
    LET stops == {j \in i..Len(s) : s[j] \in LtTokens}
    IN  IF stops = {} THEN Len(s)
        ELSE (CHOOSE j \in stops : \A k \in stops : j <= k) - 1

\* re.sub(r"(Updated automatically from PubMed: )[^<]+", repl, s) from index
\* i on: every match, left to right, is replaced by repl.
RECURSIVE SubPill(_, _, _)
SubPill(s, repl, i) ==
    LET matches == {j \in i..Len(s) : s[j] = PILL /\ RunEnd(s, j + 1) > j}
    IN  IF matches = {} THEN SubSeq(s, i, Len(s))
        ELSE LET m == CHOOSE j \in matches : \A k \in matches : j <= k
             IN  SubSeq(s, i, m - 1) \o repl \o SubPill(s, repl, RunEnd(s, m + 1) + 1)

\* Lines 195-199.
RefreshPill(out, now) ==
    LET repl == Replacement(now)
    IN  IF repl.valid THEN SubPill(out, repl.text, 1) ELSE out

\* Lines 190-192: the document with the region replaced.
ReplaceRegion(html, inner_html) ==
    LET p1 == Partition(html, START)
        p2 == Partition(p1[3], END)
    IN  p1[1] \o <<START, NL>> \o inner_html \o <<NL>> \o p2[2] \o p2[3]

\* Path.read_text of line 184: the file is read in text mode, where every
\* "\r\n" and every lone "\r" of the file comes back as "\n".  (Line 201
\* writes "\n" as it is.)
read_text(text) ==
    LET kept == SelectSeq([i \in 1..Len(text) |-> i],
                          LAMBDA i : ~(/\ text[i] = "\r"
                                       /\ i < Len(text)
                                       /\ text[i + 1] = NL))
    IN  [k \in 1..Len(kept) |->
            IF text[kept[k]] = "\r" THEN NL ELSE text[kept[k]]]

\* inject_into_file that tests for the end marker only after it has written.
inject_write_first(target, inner_html, now) ==
    LET html == read_text(target.text)
    IN  IF ~target.exists
        THEN [error |-> "FileNotFoundError", file |-> target]
        ELSE IF ~Contains(html, START)
        THEN [error |-> "RuntimeError", file |-> target]
        ELSE [error |-> IF Contains(html, END) THEN "" ELSE "RuntimeError",
              file |-> FileOf(RefreshPill(ReplaceRegion(html, inner_html), now))]

\* inject_into_file(target_path, inner_html) on the file at target_path:
\* the exception it raises ("" when none) and the file it leaves.
inject_into_file(target, inner_html, now) ==
    LET html == read_text(target.text)
    IN  IF ~target.exists
        THEN [error |-> "FileNotFoundError", file |-> target]
        ELSE IF ~Contains(html, START) \/ ~Contains(html, END)
        THEN [error |-> "RuntimeError", file |-> target]
        ELSE [error |-> "",
              file |-> FileOf(RefreshPill(ReplaceRegion(html, inner_html), now))]

(***************************************************************************)
(* esearch, esummary and the aggregation of main                           *)
(***************************************************************************)
BatchSize == 200

Min(a, b) == IF a < b THEN a ELSE b

\* chunked with the slice seq[i:i+n+1]: one element too many.
chunked_overlap(seq, n) ==
    [k \in 1..((Len(seq) + n - 1) \div n) |->
        SubSeq(seq, (k - 1) * n + 1, Min(k * n + 1, Len(seq)))]

\* chunked(seq, n): the slices seq[i:i+n] for i = 0, n, 2n, ...
chunked(seq, n) ==
    [k \in 1..((Len(seq) + n - 1) \div n) |->
        SubSeq(seq, (k - 1) * n + 1, Min(k * n, Len(seq)))]

\* What one summary call appends to `out` (lines 69-73): the records of the
\* uids the response lists, which are those of the batch the endpoint knows.
SummaryRecords(batch) ==
    LET known == SelectSeq(batch, LAMBDA id : \E r \in DB : r.uid = id)
    IN  [i \in 1..Len(known) |-> CHOOSE r \in DB : r.uid = known[i]]

\* The id lists a search may return.
SearchOutcomes ==
    {<<>>, <<Id7>>, <<Id5, Id12>>, <<Id12, Id7>>, <<Id7, Id07>>, <<Id3, IdX>>}

\* The key of line 227: int(x) if x.isdigit() else 0
SortKey(x) == IF IsDigitStr(x) THEN IntOfStr(x) ELSE 0

Range(s) == {s[i] : i \in 1..Len(s)}

\* The orders sorted(S, key=SortKey, reverse=True) can give for a set S.
\* The sort is stable and a set of strings iterates in an order that
\* depends on the hash seed of the run, so elements with equal keys may
\* come out in any order.
RECURSIVE SortedOrders(_)
SortedOrders(S) ==
    IF S = {} THEN {<<>>}
    ELSE LET top == {x \in S : \A y \in S : SortKey(y) <= SortKey(x)}
         IN  UNION {{<<x>> \o rest : rest \in SortedOrders(S \ {x})} : x \in top}

\* all without the later occurrences of an element.
RECURSIVE FirstSeen(_)
FirstSeen(all) ==
    IF all = <<>> THEN <<>>
    ELSE LET init == FirstSeen(SubSeq(all, 1, Len(all) - 1))
             x == all[Len(all)]
         IN  IF x \in Range(init) THEN init ELSE Append(init, x)

\* Line 227: the values pmids may hold after it.
Aggregate(all) == SortedOrders(Range(all))

(***************************************************************************)
(* main                                                                    *)
(***************************************************************************)
Args(config, mode, output, target) ==
    [config |-> config, mode |-> mode, output |-> output, target |-> target]

\* Command lines: whether --config, --output and --target are given.
ArgSets ==
    {Args(FALSE, "inject", FALSE, TRUE),
     Args(TRUE, "fragment", TRUE, FALSE), Args(TRUE, "fragment", FALSE, FALSE),
     Args(TRUE, "page", TRUE, FALSE), Args(TRUE, "page", FALSE, FALSE),
     Args(TRUE, "inject", FALSE, TRUE), Args(TRUE, "inject", FALSE, FALSE)}

\* The "term" values of the config's queries: sequences of at most
\* MaxTerms terms, a term being empty or not.
RECURSIVE QueryLists(_)
QueryLists(n) ==
    IF n = 0 THEN {<<>>}
    ELSE LET shorter == QueryLists(n - 1)
         IN  shorter \cup {Append(q, t) : q \in {x \in shorter : Len(x) = n - 1},
                                          t \in {"", "q"}}

DocMarked ==
    <<"<main>", "a", START, NL, "o", NL, END, "b", "<span>", PILL, "n", "o",
      "</span>", "</main>">>
DocNoPill == <<"<main>", START, END, "</main>">>
DocMainOnly == <<"<main>", "a", "</main>">>
DocBare == <<"a">>
DocStartOnly == <<"<main>", START, "a", "</main>">>
DocReversed == <<"<main>", END, "a", START, "b", "</main>">>
DocTwoEnds == <<START, "a", END, "b", END, PILL, "<span>">>
DocCRLF ==
    <<"<main>", "\r", NL, START, "\r", NL, "o", "\r", NL, END, "\r", NL,
      "</main>", "\r">>

PageHead == "<!doctype html><meta charset='utf-8'><title>Publications</title>"

Running == -1

Exit(code) == pc' = "exit" /\ exitcode' = code

\* Lines 208-220: the arguments are parsed, the config is read, and a run
\* without query terms ends with code 2.  argparse ends a run without
\* --config with code 2 as well.
ParseArgs ==
    /\ pc = "start"
    /\ LET ts == SelectSeq(terms, LAMBDA t : t # "")
       IN  IF ~args.config \/ ts = <<>>
           THEN Exit(2) /\ UNCHANGED terms
           ELSE pc' = "esearch" /\ terms' = ts /\ UNCHANGED exitcode
    /\ UNCHANGED <<args, hits, pmids, net, batches, raw, records, by_year, frag,
                   file, outfile, log>>

\* Lines 224-226, one turn of the loop: the search of the next term returns.
Esearch ==
    /\ pc = "esearch"
    /\ \E ids \in SearchOutcomes :
          /\ hits' = Append(hits, ids)
          /\ pmids' = pmids \o ids
    /\ net' = Append(net, "esearch")
    /\ pc' = IF Len(hits) + 1 = Len(terms) THEN "dedupe" ELSE "esearch"
    /\ UNCHANGED <<args, terms, batches, raw, records, by_year, frag, file,
                   outfile, exitcode, log>>

\* Line 48 raises (a transport failure): nothing catches it, and the run
\* ends with the traceback and code 1.
EsearchRaises ==
    /\ pc = "esearch"
    /\ net' = Append(net, "esearch failed")
    /\ Exit(1)
    /\ UNCHANGED <<args, terms, hits, pmids, batches, raw, records, by_year,
                   frag, file, outfile, log>>

\* Lines 227-230.
Dedupe ==
    /\ pc = "dedupe"
    /\ \E agg \in Aggregate(pmids) :
          /\ pmids' = agg
          /\ IF agg = <<>> THEN Exit(0) ELSE pc' = "esummary" /\ UNCHANGED exitcode
    /\ UNCHANGED <<args, terms, hits, net, batches, raw, records, by_year, frag,
                   file, outfile, log>>

\* Lines 60-73: the request of the next batch and the records it adds.
EsummaryCall ==
    /\ pc = "esummary"
    /\ Len(batches) < Len(chunked(pmids, BatchSize))
    /\ LET batch == chunked(pmids, BatchSize)[Len(batches) + 1]
       IN  /\ batches' = Append(batches, batch)
           /\ raw' = raw \o SummaryRecords(batch)
    /\ net' = Append(net, "esummary")
    /\ pc' = "sleep"
    /\ UNCHANGED <<args, terms, hits, pmids, records, by_year, frag, file,
                   outfile, exitcode, log>>

\* Line 67 raises: as for the search, the run ends with code 1.
EsummaryRaises ==
    /\ pc = "esummary"
    /\ Len(batches) < Len(chunked(pmids, BatchSize))
    /\ net' = Append(net, "esummary failed")
    /\ Exit(1)
    /\ UNCHANGED <<args, terms, hits, pmids, batches, raw, records, by_year,
                   frag, file, outfile, log>>

\* Line 74: the pause after a summary request, in the log of requests.
SleepEvent == "time.sleep(0.34)"

Sleep ==
    /\ pc = "sleep"
    /\ net' = Append(net, SleepEvent)
    /\ pc' = "esummary"
    /\ UNCHANGED <<args, terms, hits, pmids, batches, raw, records, by_year,
                   frag, file, outfile, exitcode, log>>

\* Line 75: the loop is over.
EsummaryReturn ==
    /\ pc = "esummary"
    /\ Len(batches) = Len(chunked(pmids, BatchSize))
    /\ pc' = "normalize"
    /\ UNCHANGED <<args, terms, hits, pmids, net, batches, raw, records,
                   by_year, frag, file, outfile, exitcode, log>>

\* Line 234.
Normalize ==
    /\ pc = "normalize"
    /\ records' = [i \in 1..Len(raw) |-> normalize_record(raw[i])]
    /\ pc' = "group"
    /\ UNCHANGED <<args, terms, hits, pmids, net, batches, raw, by_year, frag,
                   file, outfile, exitcode, log>>

\* Line 236.
Group ==
    /\ pc = "group"
    /\ by_year' = group_by_year(records)
    /\ pc' = "mode"
    /\ UNCHANGED <<args, terms, hits, pmids, net, batches, raw, records, frag,
                   file, outfile, exitcode, log>>

\* Lines 238-241, 245-248, 254-257: the argument the mode needs.
ModeCheck ==
    /\ pc = "mode"
    /\ IF (args.mode \in {"fragment", "page"} /\ ~args.output)
          \/ (args.mode = "inject" /\ ~args.target)
       THEN Exit(2)
       ELSE pc' = "render" /\ UNCHANGED exitcode
    /\ UNCHANGED <<args, terms, hits, pmids, net, batches, raw, records,
                   by_year, frag, file, outfile, log>>

\* Lines 242, 250, 258.
Render ==
    /\ pc = "render"
    /\ frag' = render_fragment(by_year)
    /\ pc' = "write"
    /\ UNCHANGED <<args, terms, hits, pmids, net, batches, raw, records,
                   by_year, file, outfile, exitcode, log>>

\* One call inject_into_file(target, inner_html) at clock `now`, and its
\* record in the log of calls.
InjectStep(inner_html, now) ==
    LET res == inject_into_file(file, inner_html, now)
    IN  /\ file' = res.file
        /\ log' = Append(log, [before |-> file, frag |-> inner_html,
                               error |-> res.error, after |-> res.file])

\* Lines 243-244, 251-253, 259-261.  An exception of inject_into_file is
\* not caught: the run ends with code 1.
Write ==
    /\ pc = "write"
    /\ IF args.mode = "inject"
       THEN /\ \E now \in Nows : InjectStep(frag, now)
            /\ Exit(IF log'[Len(log')].error = "" THEN 0 ELSE 1)
            /\ UNCHANGED outfile
       ELSE /\ outfile' = FileOf(IF args.mode = "page" THEN <<PageHead>> \o frag
                                 ELSE frag)
            /\ Exit(0)
            /\ UNCHANGED <<file, log>>
    /\ UNCHANGED <<args, terms, hits, pmids, net, batches, raw, records,
                   by_year, frag>>

TargetFiles == {NoFile, FileOf(DocMarked), FileOf(DocMainOnly)}

Init ==
    /\ pc = "start"
    /\ args \in ArgSets
    /\ terms \in QueryLists(MaxTerms)
    /\ file \in (IF args.mode = "inject" /\ args.target /\ args.config
                 THEN TargetFiles ELSE {NoFile})
    /\ hits = <<>>
    /\ pmids = <<>>
    /\ net = <<>>
    /\ batches = <<>>
    /\ raw = <<>>
    /\ records = <<>>
    /\ by_year = <<>>
    /\ frag = <<>>
    /\ outfile = NoFile
    /\ exitcode = Running
    /\ log = <<>>

Next ==
    \/ ParseArgs
    \/ Esearch
    \/ EsearchRaises
    \/ Dedupe
    \/ EsummaryCall
    \/ EsummaryRaises
    \/ Sleep
    \/ EsummaryReturn
    \/ Normalize
    \/ Group
    \/ ModeCheck
    \/ Render
    \/ Write

Spec == Init /\ [][Next]_vars

(***************************************************************************)
(* normalize_record, group_by_year and render_fragment on the records of   *)
(* the endpoint in every order: the run stands where esummary has returned *)
(* raw (line 233).                                                         *)
(***************************************************************************)
\* The sequences of at most n distinct elements of S.
RECURSIVE DistinctSeqs(_, _)
DistinctSeqs(S, n) ==
    IF n = 0 THEN {<<>>}
    ELSE LET shorter == DistinctSeqs(S, n - 1)
         IN  shorter \cup UNION {{Append(q, x) : x \in S \ Range(q)} :
                                   q \in {y \in shorter : Len(y) = n - 1}}

InitRender ==
    /\ pc = "normalize"
    /\ raw \in DistinctSeqs(DB, MaxRecs)
    /\ args = Args(TRUE, "fragment", TRUE, FALSE)
    /\ terms = <<>>
    /\ hits = <<>>
    /\ pmids = <<>>
    /\ net = <<>>
    /\ batches = <<>>
    /\ records = <<>>
    /\ by_year = <<>>
    /\ frag = <<>>
    /\ file = NoFile
    /\ outfile = NoFile
    /\ exitcode = Running
    /\ log = <<>>

NextRender ==
    \/ Normalize
    \/ Group
    \/ ModeCheck
    \/ Render

SpecRender == InitRender /\ [][NextRender]_vars

(***************************************************************************)
(* inject_into_file called by successive runs (line 259) on one target.    *)
(***************************************************************************)
\* The fragment a run renders when its searches found ids.
FragOf(ids) ==
    LET rs == SummaryRecords(ids)
    IN  render_fragment(group_by_year([i \in 1..Len(rs) |-> normalize_record(rs[i])]))

Frags == {FragOf(<<Id07>>), FragOf(<<Id12>>), FragOf(<<Id5>>), FragOf(<<Id3>>),
          FragOf(<<Id12, Id7>>)}

InjectFiles ==
    {NoFile, FileOf(DocMarked), FileOf(DocNoPill), FileOf(DocMainOnly),
     FileOf(DocBare), FileOf(DocStartOnly), FileOf(DocReversed), FileOf(DocTwoEnds),
     FileOf(DocCRLF)}

InjectCall ==
    /\ pc = "inject"
    /\ Len(log) < MaxCalls
    /\ \E f \in Frags, now \in Nows :
          /\ frag' = f
          /\ InjectStep(f, now)
    /\ UNCHANGED <<pc, args, terms, hits, pmids, net, batches, raw, records,
                   by_year, outfile, exitcode>>

InitInject ==
    /\ pc = "inject"
    /\ file \in InjectFiles
    /\ args = Args(TRUE, "inject", FALSE, TRUE)
    /\ terms = <<>>
    /\ hits = <<>>
    /\ pmids = <<>>
    /\ net = <<>>
    /\ batches = <<>>
    /\ raw = <<>>
    /\ records = <<>>
    /\ by_year = <<>>
    /\ frag = <<>>
    /\ outfile = NoFile
    /\ exitcode = Running
    /\ log = <<>>

NextInject == InjectCall

SpecInject == InitInject /\ [][NextInject]_vars

(***************************************************************************)
(* esummary on lists of up to MaxPmids identifiers: the run stands at the  *)
(* call of line 233.                                                       *)
(***************************************************************************)
InitSummary ==
    /\ pc = "esummary"
    /\ \E n \in 0..MaxPmids : pmids = [i \in 1..n |-> StrOfNat(i)]
    /\ args = Args(TRUE, "fragment", TRUE, FALSE)
    /\ terms = <<>>
    /\ hits = <<>>
    /\ net = <<>>
    /\ batches = <<>>
    /\ raw = <<>>
    /\ records = <<>>
    /\ by_year = <<>>
    /\ frag = <<>>
    /\ file = NoFile
    /\ outfile = NoFile
    /\ exitcode = Running
    /\ log = <<>>

NextSummary ==
    \/ EsummaryCall
    \/ EsummaryRaises
    \/ Sleep
    \/ EsummaryReturn

SpecSummary == InitSummary /\ [][NextSummary]_vars

(***************************************************************************)
(* Properties                                                              *)
(***************************************************************************)
\* The per-term results joined in term order.
RECURSIVE Concat(_)
Concat(seqs) == IF seqs = <<>> THEN <<>> ELSE Head(seqs) \o Concat(Tail(seqs))

\* C1: the identifiers passed to the summary stage are those the
\* searches returned, each once, in the order of their first occurrence in
\* the term-order concatenation of the results.
C1_FirstSeenOrder ==
    pc = "esummary" => pmids = FirstSeen(Concat(hits))

\* C7: a failed search of one term does not end the run: the search is
\* tried again or the run goes on to the remaining terms.
C7_SearchFailureConfined ==
    (net # <<>> /\ net[Len(net)] = "esearch failed") => pc # "exit"

\* The run has a configuration error: no --config, no query term, the
\* argument its mode needs is missing, or the target of inject mode is not
\* a file.
ConfigError ==
    \/ ~args.config
    \/ SelectSeq(terms, LAMBDA t : t # "") = <<>>
    \/ args.mode \in {"fragment", "page"} /\ ~args.output
    \/ args.mode = "inject" /\ ~args.target
    \/ args.mode = "inject" /\ args.target /\ ~file.exists

\* C8: a run with a configuration error issues no network request and ends
\* with a non-zero code.
C8_ConfigErrorBeforeNetwork ==
    ConfigError => net = <<>> /\ (pc = "exit" => exitcode # 0)

\* The positions of the requests to the summary endpoint in the log.
SummaryCalls == {i \in 1..Len(net) : net[i] = "esummary"}

\* C5: when esummary returns it has issued ceil(n/200) requests for its n
\* identifiers, each with at least 1 and at most 200 of them, the batches
\* being consecutive slices whose concatenation is the list; and at every
\* moment a sleep lies between any two requests to the summary endpoint.
C5_BatchesAndPacing ==
    /\ pc = "normalize" =>
          /\ Len(batches) = (Len(pmids) + 199) \div 200
          /\ Cardinality(SummaryCalls) = Len(batches)
          /\ \A k \in 1..Len(batches) : Len(batches[k]) \in 1..200
          /\ Concat(batches) = pmids
    /\ \A i, j \in SummaryCalls :
          i < j => \E k \in (i + 1)..(j - 1) : net[k] = SleepEvent

\* 450 identifiers have gone out as batches of 200, 200 and 50.
C5_Witness ==
    /\ pc = "normalize"
    /\ Len(pmids) = 450
    /\ [k \in 1..Len(batches) |-> Len(batches[k])] = <<200, 200, 50>>
    /\ net = <<"esummary", SleepEvent, "esummary", SleepEvent, "esummary", SleepEvent>>

\* An end marker follows a start marker in the text.
ValidPair(text) ==
    Contains(text, START) /\ Find(text, END, Find(text, START, 1)) # 0

\* The text with the printed clock blanked.
MaskTime(text) ==
    [i \in 1..Len(text) |->
        IF \E now \in Nows : text[i] = now.rest THEN "(time)" ELSE text[i]]

\* C3: when a document with a valid marker pair is injected twice in a row
\* with the same fragment, the second injection leaves the document it
\* found, apart from the timestamp.
C3_InjectIdempotent ==
    \A i \in 1..(Len(log) - 1) :
        (/\ log[i].before.exists
         /\ ValidPair(log[i].before.text)
         /\ log[i + 1].frag = log[i].frag)
        => /\ log[i].error = ""
           /\ log[i + 1].error = ""
           /\ MaskTime(log[i + 1].after.text) = MaskTime(log[i].after.text)

\* C6: a call on a document that lacks the marker pair and holds </main>
\* does not fail; it puts the fragment, between the markers, right before
\* the first </main> and keeps the text around it.
C6_FallbackBeforeMain ==
    \A i \in 1..Len(log) :
        LET doc == log[i].before.text
            k == Find(doc, "</main>", 1)
        IN  (/\ log[i].before.exists
             /\ ~(Contains(doc, START) /\ Contains(doc, END))
             /\ k # 0)
            => /\ log[i].error = ""
               /\ log[i].after.text =
                     SubSeq(doc, 1, k - 1) \o <<START, NL>> \o log[i].frag
                     \o <<NL, END>> \o SubSeq(doc, k, Len(doc))

\* C9: a call of inject_into_file that raises leaves the target as it was.
C9_FailedInjectWritesNothing ==
    \A i \in 1..Len(log) : log[i].error # "" => log[i].after = log[i].before

\* A call has failed on a document that holds the start marker only, and
\* the document is still there as it was.
C9_Witness ==
    \E i \in 1..Len(log) :
        /\ log[i].error = "RuntimeError"
        /\ log[i].before = FileOf(DocStartOnly)
        /\ file = FileOf(DocStartOnly)

\* The sections of the fragment: the index of each <section ...> in order,
\* the label in its data-year attribute, and the PMID links below it.
SectionStarts == SelectSeq([i \in 1..Len(frag) |-> i], LAMBDA i : frag[i] = SecOpen)

SectionLabel(i) == SubSeq(frag, i + 1, Find(frag, TagEnd, i) - 1)

SectionLabels == [k \in 1..Len(SectionStarts) |-> SectionLabel(SectionStarts[k])]

PmidLinks == {j \in 1..Len(frag) : frag[j] = PmidText}

LinkedPmid(j) == SubSeq(frag, j + 1, Find(frag, AClose, j) - 1)

\* The section a position lies in: the last <section ...> before it.
SectionAt(j) ==
    LET before == {i \in Range(SectionStarts) : i < j}
    IN  CHOOSE i \in before : \A k \in before : k <= i

Undated == <<"undated">>

\* The text holds a year: four digits that begin with 19 or 20.
HasYearText(text) ==
    \E i \in 1..(Len(text) - 3), y \in 1900..2099 : SubSeq(text, i, i + 3) = StrOfNat(y)

\* C2: the rendered fragment has one section per distinct year of the
\* records, the numbered sections in strictly descending order and the
\* undated section after them all; every record is listed exactly once, in
\* the section of its year, and a record whose date holds no year is listed
\* in the undated section.
C2_SectionsByYear ==
    pc = "write" =>
        /\ Len(SectionStarts) = Cardinality({records[k].year : k \in 1..Len(records)})
        /\ \A a, b \in 1..Len(SectionLabels) :
              a < b => /\ SectionLabels[a] # Undated
                       /\ IsDigitStr(SectionLabels[a])
                       /\ \/ SectionLabels[b] = Undated
                          \/ /\ IsDigitStr(SectionLabels[b])
                             /\ IntOfStr(SectionLabels[a]) > IntOfStr(SectionLabels[b])
        /\ Cardinality(PmidLinks) = Len(records)
        /\ \A k \in 1..Len(records) :
              LET at == {j \in PmidLinks : LinkedPmid(j) = records[k].pmid}
              IN  /\ Cardinality(at) = 1
                  /\ \A j \in at :
                        SectionLabel(SectionAt(j)) =
                            IF HasYearText(records[k].pubdate)
                            THEN StrOfNat(records[k].year) ELSE Undated

\* Records of 2019, of no year and of 2021, given in that order, are
\* rendered as the sections 2021, 2019, undated.
C2_Witness ==
    /\ pc = "write"
    /\ [k \in 1..Len(raw) |-> raw[k].uid] = <<Id5, Id3, Id12>>
    /\ SectionLabels = <<<<"2", "0", "2", "1">>, <<"2", "0", "1", "9">>, Undated>>

\* C4: no markup character of a record's text reaches the fragment as it
\* is: the fragment holds no raw "<" or ">" that comes from a title, an
\* author name or a journal name.
C4_MarkupEscaped ==
    \A i \in 1..Len(frag) : frag[i] \notin {"<", ">"}

\* C10: in every year group a record stands before the records of earlier
\* publication-date strings, and among records of one publication-date
\* string (an absent one included) before those of greater titles.
C10_TitleAscendingOnTies ==
    \A g \in 1..Len(by_year) :
        \A i, j \in 1..Len(by_year[g].recs) :
            LET a == by_year[g].recs[i]
                b == by_year[g].recs[j]
            IN  i < j => /\ ~StrLess(a.pubdate, b.pubdate)
                         /\ a.pubdate = b.pubdate => ~StrLess(b.title, a.title)

\* The text with every date that follows the pill label replaced by one fixed
\* word, the label itself kept.
BlankStamp(text) == SubPill(text, <<PILL, "(time)">>, 1)

\* The written document out is the document doc with only the region of a
\* marker pair replaced by inner_html: out holds a start marker and, after it,
\* an end marker with the fragment on lines of its own between them, the text
\* before that start marker is the text before a start marker of doc and the
\* text after that end marker is the text after an end marker of doc, the
\* dates after the pill label apart.
OnlyRegionReplaced(doc, inner_html, out) ==
    \E s, e \in 1..Len(out) :
        /\ s < e
        /\ out[s] = START
        /\ out[e] = END
        /\ BlankStamp(SubSeq(out, s + 1, e - 1))
               = BlankStamp(<<NL>> \o inner_html \o <<NL>>)
        /\ \E ds, de \in 1..Len(doc) :
               /\ doc[ds] = START
               /\ doc[de] = END
               /\ BlankStamp(SubSeq(out, 1, s - 1))
                      = BlankStamp(SubSeq(doc, 1, ds - 1))
               /\ BlankStamp(SubSeq(out, e + 1, Len(out)))
                      = BlankStamp(SubSeq(doc, de + 1, Len(doc)))

\* C11: every call of inject_into_file that succeeds on a document holding
\* both markers writes a document that holds both markers with the new
\* fragment between them, and keeps the text before the start marker and the
\* text after the end marker as it was, the refreshed date apart.
C11_OnlyRegionReplaced ==
    \A i \in 1..Len(log) :
        ( /\ log[i].before.exists
          /\ Contains(log[i].before.text, START)
          /\ Contains(log[i].before.text, END)
          /\ log[i].error = "" )
        => OnlyRegionReplaced(log[i].before.text, log[i].frag,
                              log[i].after.text)

====
